---- MODULE Spec2Model ----
(***************************************************************************)
(* Model of the orchestrator control plane (src/core/orchestrator_api.py), *)
(* the trace recorder (src/core/replay_trace.py) and the default DAG       *)
(* (src/core/dag_engine.py), and of the node wrapper and registry          *)
(* (src/core/node_interface.py) and the trace sinks                        *)
(* (src/core/trace_logger.py).                                             *)
(*                                                                         *)
(* One ReplayWriter handle (_replay.replay_writer) is shared by every      *)
(* background run; each run is a thread executing _run_dag, modelled one   *)
(* statement group per step so that the interleavings on the shared handle *)
(* are those the thread pool can produce.                                  *)
(***************************************************************************)
EXTENDS Integers, Sequences, FiniteSets, TLC

\* ------------------------------------------------------------------ bounds
MaxRuns == 2          \* number of trace ids allocated in one behaviour
MaxLibNodes == 2      \* entries recorded through the writer API in LibSpec
MaxCalls == 2         \* invocations of a wrapped node or a logged block
MaxWriters == 2       \* threads writing to one JSONLSink
MaxWrites == 3        \* events each of them writes

\* --------------------------------------------------------- program constants
MaxWorkers == 4
DefaultTask == "default_asda_flow"
END == "__end__"
Entry == "retriever_node"
GraphNodes == {"retriever_node", "llm_inference_node", "executor_node"}
Edges == { <<"retriever_node", "llm_inference_node">>,
           <<"llm_inference_node", "executor_node">>,
           <<"executor_node", END>> }

\* Optional values: None is the empty sequence, Some(v) a one-element one.
None == << >>
Some(v) == << v >>

Ids == 1..MaxRuns
NoId == 0                       \* an id that build_trace_id never returns
TaskNames == {DefaultTask, "nope"}
Contexts == { [query |-> "hi"], [raw_event |-> "ping"] }
EmptyMap == [n \in {} |-> None]

NotInitialised == "init_trace must be called first"
NodeRaised == "node body raised"
TaskNotFound(name) == "Task '" \o name \o "' not found"

\* ------------------------------------------- node registry, wrapper, sinks
\* The two wrapped functions of test_node_interface.py and the names they are
\* registered under; without a name the function's __name__ is used.
NodeFns == {"my_test_node", "my_test_node_v1_2"}
RegNames == {None, Some("my_test_node_v1.1"), Some("my_test_node_v1.2")}
AlreadyRegistered == "is already registered"

Sinks == 1..2                   \* TraceLogger.sinks, in list order
Writers == 1..MaxWriters        \* threads calling one JSONLSink

VARIABLES
  tasks,      \* _tasks: trace_id -> TaskResult
  alloc,      \* the trace ids build_trace_id has returned, in order
  sub,        \* trace_id -> TaskSubmission handed to _run_dag
  replayOf,   \* trace_id -> trace id /replay was called with (NoId for /run)
  pc,         \* trace_id -> next statement of _run_dag
  exc,        \* trace_id -> exception in flight in _run_dag
  st,         \* trace_id -> DAGState of the run
  cursor,     \* trace_id -> next graph node of the run
  invoked,    \* trace_id -> names of the node bodies called, in order
  finRec,     \* trace_id -> local `record` of finalize_trace
  current,    \* ReplayWriter._current: None or a reference to a TraceRecord
  recs,       \* TraceRecord objects by the trace_id they were created with
  files,      \* store: trace_id -> content of trace_<id>.jsonl
  resp,       \* last HTTP response
  mgr,        \* outcome of the last ReplayManager.replay call
  ret,        \* what the last library call returned or raised
  registry,   \* NODE_REGISTRY: name -> function, in insertion order
  called,     \* invocations of a wrapped node or a logged block, in order
  sunk,       \* sink -> events that sink has received, in order
  pending,    \* JSONLSink.file: lines written and not yet flushed
  disk,       \* JSONLSink.file: lines of the file on disk
  wpc         \* writer thread -> position in JSONLSink.__call__

\* the orchestrator and recorder state other than ret
runVars == << tasks, alloc, sub, replayOf, pc, exc, st, cursor, invoked, finRec,
              current, recs, files, resp, mgr >>
\* the registry, wrapper and sink state
nodeVars == << registry, called, sunk, pending, disk, wpc >>

vars == << tasks, alloc, sub, replayOf, pc, exc, st, cursor, invoked, finRec,
           current, recs, files, resp, mgr, ret, registry, called, sunk,
           pending, disk, wpc >>

\* ------------------------------------------------------------- pure helpers
Get(d, k, default) == IF k \in DOMAIN d THEN d[k] ELSE default

Put(f, k, v) == [x \in DOMAIN f \cup {k} |-> IF x = k THEN v ELSE f[x]]

\* uuid4 is modelled as an id that was never returned before: the next
\* unused number. build_trace_id_Repeating returns an id it returned before.
build_trace_id_Repeating(a) == 1

build_trace_id(a) == Len(a) + 1

TaskResult(status) == [status |-> status, error |-> None, dag_output |-> None]

DAGState(input, tid, replay) ==
  [ initial_input |-> input, node_outputs |-> EmptyMap, trace_id |-> tid,
    is_replay |-> replay, replay_data |-> EmptyMap ]

_retriever_node(s) ==
  LET query == Get(s.initial_input, "query", "") IN
  [ s EXCEPT !.node_outputs =
               Put(@, "retriever_node", [documents |-> << "Document for: " \o query >>]),
             !.initial_input = [prompt |-> query] ]

_llm_inference_node(s) ==
  LET prompt == Get(s.initial_input, "prompt", "") IN
  [ s EXCEPT !.node_outputs =
               Put(@, "llm_inference_node", [response |-> "Response to: " \o prompt]),
             !.initial_input = [action |-> prompt] ]

_executor_node(s) ==
  LET action == Get(s.initial_input, "action", "") IN
  [ s EXCEPT !.node_outputs =
               Put(@, "executor_node", [result |-> "Executed: " \o action]) ]

NodeBody(n, s) ==
  CASE n = "retriever_node" -> _retriever_node(s)
    [] n = "llm_inference_node" -> _llm_inference_node(s)
    [] n = "executor_node" -> _executor_node(s)

Succ(n) == CHOOSE m \in GraphNodes \cup {END} : << n, m >> \in Edges

\* The compiled graph's invoke when no body raises: from node n on, each body
\* is called on the state and the edge out of the node is followed.
RECURSIVE Invoke(_, _, _)
Invoke(n, s, log) ==
  IF n = END
    THEN [state |-> s, invoked |-> log]
    ELSE Invoke(Succ(n), NodeBody(n, s), Append(log, n))

\* ReplayMetadata with its defaults
ReplayMetadata ==
  [ replay_count |-> 0, source_trace_id |-> None, generated_for |-> << >> ]

TraceRecord(tid, name) ==
  [ trace_id |-> tid, task_name |-> name, ended |-> FALSE,
    executed_nodes |-> << >>, replay_info |-> ReplayMetadata ]

NodeExecutionTrace(name, input, output) ==
  [ node_name |-> name, version |-> "1.0", input |-> input,
    output |-> output, status |-> "success", error_msg |-> None ]

\* ReplayReader.load: the record of trace_<id>.jsonl; without the file the
\* reader falls through to self._db, an attribute ReplayReader never sets.
LoadOk(tid) == tid \in DOMAIN files
Load(tid) == files[tid]
LoadError == "AttributeError"

\* What a call on the writer or the reader gave its caller: the value it
\* returned (an id, a record) or the exception it raised.
Returned(op, tid, value) ==
  [op |-> op, ok |-> TRUE, error |-> "", trace_id |-> tid, value |-> value]
Raised(op, tid, error) ==
  [op |-> op, ok |-> FALSE, error |-> error, trace_id |-> tid, value |-> None]
NoCall == Returned("none", NoId, None)

\* ------------------------------------------- ReplayWriter, on one handle
\* init_trace: a new TraceRecord object replaces whatever _current held
init_trace(tid, name) ==
  /\ recs' = Put(recs, tid, TraceRecord(tid, name))
  /\ current' = Some(tid)

\* record_node_output keeping only the newest entry
record_node_output_Replace(entry) ==
  recs' = [recs EXCEPT ![current[1]].executed_nodes = << entry >>]

\* record_node_output line 117, _current not None
record_node_output(entry) ==
  recs' = [recs EXCEPT ![current[1]].executed_nodes = Append(@, entry)]

\* finalize_trace line 124, _current not None
set_end_time ==
  recs' = [recs EXCEPT ![current[1]].ended = TRUE]

\* finalize_trace lines 126-138: the record is written whole to
\* trace_<record.trace_id>.jsonl and the handle is closed. The TinyDB copy
\* (replay.json) is read by no operation of the orchestrator and is left out.
write_trace(rid) ==
  /\ files' = Put(files, recs[rid].trace_id, recs[rid])
  /\ current' = None

\* finalize_trace called by one thread alone
finalize_trace ==
  /\ recs' = [recs EXCEPT ![current[1]].ended = TRUE]
  /\ files' = Put(files, recs[current[1]].trace_id,
                  [recs[current[1]] EXCEPT !.ended = TRUE])
  /\ current' = None

get_status(tid) ==
  IF tid \in DOMAIN tasks
    THEN [trace_id |-> tid] @@ tasks[tid]
    ELSE [trace_id |-> tid] @@ TaskResult("unknown")

\* ----------------------------------------------------------------- initial
Init ==
  /\ tasks = EmptyMap
  /\ alloc = << >>
  /\ sub = EmptyMap
  /\ replayOf = EmptyMap
  /\ pc = [t \in Ids |-> "idle"]
  /\ exc = [t \in Ids |-> None]
  /\ st = [t \in Ids |-> None]
  /\ cursor = [t \in Ids |-> END]
  /\ invoked = [t \in Ids |-> << >>]
  /\ finRec = [t \in Ids |-> NoId]
  /\ current = None
  /\ recs = EmptyMap
  /\ files = EmptyMap
  /\ resp = [op |-> "none", code |-> 0, arg |-> NoId, trace_id |-> NoId,
             status |-> "none"]
  /\ mgr = None
  /\ ret = NoCall
  /\ registry = << >>
  /\ called = << >>
  /\ sunk = [k \in Sinks |-> << >>]
  /\ pending = << >>
  /\ disk = << >>
  /\ wpc = [w \in Writers |-> [at |-> "idle", n |-> 0]]

\* ------------------------------------------------------------ HTTP handlers
\* The handler dispatching the run without inserting it in the task table
Dispatch_NoInsert(new, submission, src) ==
  /\ tasks' = tasks
  /\ alloc' = Append(alloc, new)
  /\ sub' = Put(sub, new, submission)
  /\ replayOf' = Put(replayOf, new, src)
  /\ pc' = [pc EXCEPT ![new] = "queued"]
  /\ resp' = [op |-> IF src = NoId THEN "run" ELSE "replay", code |-> 200,
              arg |-> src, trace_id |-> new, status |-> "running"]

Dispatch(new, submission, src) ==
  /\ tasks' = Put(tasks, new, TaskResult("running"))
  /\ alloc' = Append(alloc, new)
  /\ sub' = Put(sub, new, submission)
  /\ replayOf' = Put(replayOf, new, src)
  /\ pc' = [pc EXCEPT ![new] = "queued"]
  /\ resp' = [op |-> IF src = NoId THEN "run" ELSE "replay", code |-> 200,
              arg |-> src, trace_id |-> new, status |-> "running"]

\* POST /run
run_task(name, ctx) ==
  /\ Len(alloc) < MaxRuns
  /\ Dispatch(build_trace_id(alloc),
              [task_name |-> name, input_context |-> ctx], NoId)
  /\ UNCHANGED << exc, st, cursor, invoked, finRec, current, recs, files, mgr, ret, nodeVars >>

\* GET /replay/{trace_id}: the load or the index [0] raises, and the request
\* is answered with 500, or a fresh run of the stored task is dispatched.
replay(tid) ==
  /\ IF LoadOk(tid) /\ Len(Load(tid).executed_nodes) > 0
       THEN /\ Len(alloc) < MaxRuns
            /\ Dispatch(build_trace_id(alloc),
                        [task_name |-> Load(tid).task_name,
                         input_context |-> Load(tid).executed_nodes[1].input],
                        tid)
       ELSE /\ resp' = [op |-> "replay", code |-> 500, arg |-> tid,
                        trace_id |-> tid,
                        status |-> IF LoadOk(tid) THEN "IndexError" ELSE LoadError]
            /\ UNCHANGED << tasks, alloc, sub, replayOf, pc >>
  /\ UNCHANGED << exc, st, cursor, invoked, finRec, current, recs, files, mgr, ret, nodeVars >>

\* GET /status/{trace_id} with the lookup inserting its default (setdefault)
GetStatus_Inserting(tid) ==
  /\ resp' = [op |-> "status", code |-> 200, arg |-> tid,
              trace_id |-> get_status(tid).trace_id,
              status |-> get_status(tid).status]
  /\ tasks' = IF tid \in DOMAIN tasks THEN tasks
                ELSE Put(tasks, tid, TaskResult("unknown"))
  /\ UNCHANGED << alloc, sub, replayOf, pc, exc, st, cursor, invoked, finRec,
                  current, recs, files, mgr, ret, nodeVars >>

\* GET /status/{trace_id}: _tasks.get(trace_id, TaskResult(status="unknown"))
GetStatus(tid) ==
  /\ resp' = [op |-> "status", code |-> 200, arg |-> tid,
              trace_id |-> get_status(tid).trace_id,
              status |-> get_status(tid).status]
  /\ UNCHANGED << tasks, alloc, sub, replayOf, pc, exc, st, cursor, invoked,
                  finRec, current, recs, files, mgr, ret, nodeVars >>

\* GET /result/{trace_id}: the same lookup
get_result(tid) ==
  IF tid \in DOMAIN tasks
    THEN [trace_id |-> tid] @@ tasks[tid]
    ELSE [trace_id |-> tid] @@ TaskResult("unknown")

GetResult(tid) ==
  /\ resp' = [op |-> "result", code |-> 200, arg |-> tid,
              trace_id |-> get_result(tid).trace_id,
              status |-> get_result(tid).status]
  /\ UNCHANGED << tasks, alloc, sub, replayOf, pc, exc, st, cursor, invoked,
                  finRec, current, recs, files, mgr, ret, nodeVars >>

\* ------------------------------------------------- _run_dag, one thread per run
\* Runs submitted by /run wait for one of the executor's MaxWorkers threads;
\* runs added by /replay are background tasks of the request.
Running(t) == pc[t] \notin {"idle", "queued", "done"}
PoolBusy == Cardinality({t \in Ids : Running(t) /\ replayOf[t] = NoId})

\* lines 71-72
Start(t) ==
  /\ pc[t] = "queued"
  /\ replayOf[t] # NoId \/ PoolBusy < MaxWorkers
  /\ tasks' = [tasks EXCEPT ![t] = TaskResult("running")]
  /\ pc' = [pc EXCEPT ![t] = "L74"]
  /\ UNCHANGED << alloc, sub, replayOf, exc, st, cursor, invoked, finRec,
                  current, recs, files, resp, mgr, ret, nodeVars >>

\* line 74
RunInit(t) ==
  /\ pc[t] = "L74"
  /\ init_trace(t, sub[t].task_name)
  /\ pc' = [pc EXCEPT ![t] = "L76"]
  /\ UNCHANGED << tasks, alloc, sub, replayOf, exc, st, cursor, invoked,
                  finRec, files, resp, mgr, ret, nodeVars >>

\* lines 76-80 and the construction of the input state of line 84
CheckTask(t) ==
  /\ pc[t] = "L76"
  /\ IF sub[t].task_name # DefaultTask
       THEN /\ exc' = [exc EXCEPT ![t] = Some(TaskNotFound(sub[t].task_name))]
            /\ pc' = [pc EXCEPT ![t] = "L97"]
            /\ UNCHANGED << st, cursor >>
       ELSE /\ st' = [st EXCEPT ![t] = Some(DAGState(sub[t].input_context, t, FALSE))]
            /\ cursor' = [cursor EXCEPT ![t] = Entry]
            /\ pc' = [pc EXCEPT ![t] = "L83"]
            /\ UNCHANGED exc
  /\ UNCHANGED << tasks, alloc, sub, replayOf, invoked, finRec, current, recs,
                  files, resp, mgr, ret, nodeVars >>

\* The kernel swallowing the exception of a body and going on to the next node
NodeStep_Continue(t, raises) ==
  /\ pc[t] = "L83"
  /\ cursor[t] # END
  /\ invoked' = [invoked EXCEPT ![t] = Append(@, cursor[t])]
  /\ st' = [st EXCEPT ![t] = IF raises THEN @ ELSE Some(NodeBody(cursor[t], @[1]))]
  /\ cursor' = [cursor EXCEPT ![t] = Succ(@)]
  /\ pc' = [pc EXCEPT ![t] = IF Succ(cursor[t]) = END THEN "L88" ELSE "L83"]
  /\ UNCHANGED << tasks, alloc, sub, replayOf, exc, finRec, current, recs,
                  files, resp, mgr, ret, nodeVars >>

\* line 83, runner.invoke: the kernel calls the body of the next node and
\* follows its edge; a body that raises ends invoke with that exception.
NodeStep(t, raises) ==
  /\ pc[t] = "L83"
  /\ cursor[t] # END
  /\ invoked' = [invoked EXCEPT ![t] = Append(@, cursor[t])]
  /\ IF raises
       THEN /\ exc' = [exc EXCEPT ![t] = Some(NodeRaised)]
            /\ pc' = [pc EXCEPT ![t] = "L97"]
            /\ UNCHANGED << st, cursor >>
       ELSE /\ st' = [st EXCEPT ![t] = Some(NodeBody(cursor[t], @[1]))]
            /\ cursor' = [cursor EXCEPT ![t] = Succ(@)]
            /\ pc' = [pc EXCEPT ![t] = IF Succ(cursor[t]) = END THEN "L88" ELSE "L83"]
            /\ UNCHANGED exc
  /\ UNCHANGED << tasks, alloc, sub, replayOf, finRec, current, recs, files,
                  resp, mgr, ret, nodeVars >>

\* line 88: result is the object stored in _tasks
SetCompleted(t) ==
  /\ pc[t] = "L88"
  /\ tasks' = [tasks EXCEPT ![t].status = "completed"]
  /\ pc' = [pc EXCEPT ![t] = "L89"]
  /\ UNCHANGED << alloc, sub, replayOf, exc, st, cursor, invoked, finRec,
                  current, recs, files, resp, mgr, ret, nodeVars >>

\* line 89: output is the final state returned by invoke
SetOutput(t) ==
  /\ pc[t] = "L89"
  /\ tasks' = [tasks EXCEPT ![t].dag_output = Some(st[t][1])]
  /\ pc' = [pc EXCEPT ![t] = "L90"]
  /\ UNCHANGED << alloc, sub, replayOf, exc, st, cursor, invoked, finRec,
                  current, recs, files, resp, mgr, ret, nodeVars >>

\* lines 90-95, on the shared handle
RunRecord(t) ==
  /\ pc[t] = "L90"
  /\ IF current = None
       THEN /\ exc' = [exc EXCEPT ![t] = Some(NotInitialised)]
            /\ UNCHANGED recs
       ELSE /\ record_node_output(NodeExecutionTrace("__result__",
                                    sub[t].input_context, tasks[t].dag_output))
            /\ UNCHANGED exc
  /\ pc' = [pc EXCEPT ![t] = "L97"]
  /\ UNCHANGED << tasks, alloc, sub, replayOf, st, cursor, invoked, finRec,
                  current, files, resp, mgr, ret, nodeVars >>

\* line 97, finalize_trace lines 122-125: an exception raised here replaces
\* the one in flight
RunFinalizeBegin(t) ==
  /\ pc[t] = "L97"
  /\ IF current = None
       THEN /\ exc' = [exc EXCEPT ![t] = Some(NotInitialised)]
            /\ pc' = [pc EXCEPT ![t] = "L99"]
            /\ UNCHANGED << recs, finRec >>
       ELSE /\ set_end_time
            /\ finRec' = [finRec EXCEPT ![t] = current[1]]
            /\ pc' = [pc EXCEPT ![t] = "L126"]
            /\ UNCHANGED exc
  /\ UNCHANGED << tasks, alloc, sub, replayOf, st, cursor, invoked, current,
                  files, resp, mgr, ret, nodeVars >>

\* finalize_trace lines 126-139, then line 102 when nothing was raised
RunFinalizeWrite(t) ==
  /\ pc[t] = "L126"
  /\ write_trace(finRec[t])
  /\ pc' = [pc EXCEPT ![t] = IF exc[t] = None THEN "done" ELSE "L99"]
  /\ UNCHANGED << tasks, alloc, sub, replayOf, exc, st, cursor, invoked,
                  finRec, recs, resp, mgr, ret, nodeVars >>

\* line 99
SetFailed(t) ==
  /\ pc[t] = "L99"
  /\ tasks' = [tasks EXCEPT ![t].status = "failed"]
  /\ pc' = [pc EXCEPT ![t] = "L100"]
  /\ UNCHANGED << alloc, sub, replayOf, exc, st, cursor, invoked, finRec,
                  current, recs, files, resp, mgr, ret, nodeVars >>

\* The handler of line 98 leaving error unset
SetError_Lost(t) ==
  /\ pc[t] = "L100"
  /\ exc' = [exc EXCEPT ![t] = None]
  /\ pc' = [pc EXCEPT ![t] = "done"]
  /\ UNCHANGED << tasks, alloc, sub, replayOf, st, cursor, invoked, finRec,
                  current, recs, files, resp, mgr, ret, nodeVars >>

\* lines 100-102
SetError(t) ==
  /\ pc[t] = "L100"
  /\ tasks' = [tasks EXCEPT ![t].error = exc[t]]
  /\ exc' = [exc EXCEPT ![t] = None]
  /\ pc' = [pc EXCEPT ![t] = "done"]
  /\ UNCHANGED << alloc, sub, replayOf, st, cursor, invoked, finRec, current,
                  recs, files, resp, mgr, ret, nodeVars >>

_run_dag(t) ==
  \/ Start(t)
  \/ RunInit(t)
  \/ CheckTask(t)
  \/ \E raises \in BOOLEAN : NodeStep(t, raises)
  \/ SetCompleted(t)
  \/ SetOutput(t)
  \/ RunRecord(t)
  \/ RunFinalizeBegin(t)
  \/ RunFinalizeWrite(t)
  \/ SetFailed(t)
  \/ SetError(t)

Next ==
  \/ \E name \in TaskNames, ctx \in Contexts : run_task(name, ctx)
  \/ \E tid \in Ids \cup {NoId} : replay(tid)
  \/ \E t \in Ids : _run_dag(t)

Spec == Init /\ [][Next]_vars

\* The orchestrator with clients polling /status and /result
ApiNext ==
  \/ Next
  \/ \E tid \in Ids \cup {NoId} : GetStatus(tid)
  \/ \E tid \in Ids \cup {NoId} : GetResult(tid)

ApiSpec == Init /\ [][ApiNext]_vars

\* ------------------------------- the recorder and ReplayManager used directly
\* Entries a caller of the writer records.
LibEntries ==
  { NodeExecutionTrace(n, c, Some([documents |-> << "stored" >>])) :
      n \in {"retriever_node", "audit_node"}, c \in Contexts }

\* writer.init_trace(task_name=name): the id is a new uuid4. The call has no
\* guard on an open trace: _current is replaced.
LibInit(name) ==
  /\ Len(alloc) < MaxRuns
  /\ init_trace(build_trace_id(alloc), name)
  /\ alloc' = Append(alloc, build_trace_id(alloc))
  /\ ret' = Returned("init", build_trace_id(alloc), None)
  /\ UNCHANGED << tasks, sub, replayOf, pc, exc, st, cursor, invoked, finRec,
                  files, resp, mgr, nodeVars >>

\* writer.record_node_output(...); without an open trace it raises
LibRecord(entry) ==
  /\ IF current = None
       THEN /\ ret' = Raised("record", NoId, NotInitialised)
            /\ UNCHANGED recs
       ELSE /\ Len(recs[current[1]].executed_nodes) < MaxLibNodes
            /\ record_node_output(entry)
            /\ ret' = Returned("record", current[1], None)
  /\ UNCHANGED << tasks, alloc, sub, replayOf, pc, exc, st, cursor, invoked,
                  finRec, current, files, resp, mgr, nodeVars >>

\* writer.finalize_trace(); without an open trace it raises
LibFinalize ==
  /\ IF current = None
       THEN /\ ret' = Raised("finalize", NoId, NotInitialised)
            /\ UNCHANGED << recs, files, current >>
       ELSE /\ finalize_trace
            /\ ret' = Returned("finalize", current[1],
                                Some([recs[current[1]] EXCEPT !.ended = TRUE]))
  /\ UNCHANGED << tasks, alloc, sub, replayOf, pc, exc, st, cursor, invoked,
                  finRec, resp, mgr, nodeVars >>

\* reader.load(trace_id): the record parsed from trace_<id>.jsonl, or the
\* error of line 174 when there is no such file
LibLoad(tid) ==
  /\ ret' = IF LoadOk(tid) THEN Returned("load", tid, Some(Load(tid)))
                           ELSE Raised("load", tid, LoadError)
  /\ UNCHANGED << tasks, alloc, sub, replayOf, pc, exc, st, cursor, invoked,
                  finRec, current, recs, files, resp, mgr, nodeVars >>

\* replay_nodes of ReplayManager.replay: a later entry of a name wins
ReplayNodes(rec) ==
  LET names == {rec.executed_nodes[i].node_name : i \in 1..Len(rec.executed_nodes)}
      last(n) == CHOOSE i \in 1..Len(rec.executed_nodes) :
                   /\ rec.executed_nodes[i].node_name = n
                   /\ \A j \in 1..Len(rec.executed_nodes) :
                        rec.executed_nodes[j].node_name = n => j <= i
  IN [n \in names |-> rec.executed_nodes[last(n)].output]

\* ReplayManager.replay(trace_id, build_default_dag()): DAGState has no field
\* replay_nodes, so the keyword is dropped and replay_data stays empty.
ManagerReplay(tid) ==
  /\ mgr' =
       IF ~LoadOk(tid) THEN Some([ok |-> FALSE, error |-> LoadError])
       ELSE IF Len(Load(tid).executed_nodes) = 0
         THEN Some([ok |-> FALSE, error |-> "IndexError"])
       ELSE LET state == DAGState(Load(tid).executed_nodes[1].input, tid, TRUE)
                run == Invoke(Entry, state, << >>)
            IN Some([ok |-> TRUE, trace_id |-> tid,
                     replay_nodes |-> ReplayNodes(Load(tid)),
                     meta |-> run.state, invoked |-> run.invoked])
  /\ UNCHANGED << tasks, alloc, sub, replayOf, pc, exc, st, cursor, invoked,
                  finRec, current, recs, files, resp, ret, nodeVars >>

LibNext ==
  \/ \E name \in {"demo", DefaultTask} : LibInit(name)
  \/ \E entry \in LibEntries : LibRecord(entry)
  \/ LibFinalize
  \/ \E tid \in Ids \cup {NoId} : LibLoad(tid)
  \/ \E tid \in Ids \cup {NoId} : ManagerReplay(tid)

LibSpec == Init /\ [][LibNext]_vars

\* ------------------------------------------------------------ node registry
RegisteredNames == {registry[i].name : i \in 1..Len(registry)}

\* list_registered_nodes / GET /nodes: the keys of the dict, in insertion order
list_registered_nodes == [i \in 1..Len(registry) |-> registry[i].name]

\* register_node without the membership test: the assignment rebinds the name
RegisterNode_Overwrite(fn, name) ==
  LET node_name == IF name = None THEN fn ELSE name[1] IN
  /\ registry' =
       IF node_name \in RegisteredNames
         THEN [i \in 1..Len(registry) |->
                 IF registry[i].name = node_name
                   THEN [name |-> node_name, fn |-> fn] ELSE registry[i]]
         ELSE Append(registry, [name |-> node_name, fn |-> fn])
  /\ ret' = Returned("register", NoId, Some(node_name))
  /\ UNCHANGED << runVars, called, sunk, pending, disk, wpc >>

\* register_node(node_function, name)
RegisterNode(fn, name) ==
  LET node_name == IF name = None THEN fn ELSE name[1] IN
  /\ IF node_name \in RegisteredNames
       THEN /\ ret' = [Raised("register", NoId, AlreadyRegistered)
                         EXCEPT !.value = Some(node_name)]
            /\ UNCHANGED registry
       ELSE /\ registry' = Append(registry, [name |-> node_name, fn |-> fn])
            /\ ret' = Returned("register", NoId, Some(node_name))
  /\ UNCHANGED << runVars, called, sunk, pending, disk, wpc >>

RegNext == \E fn \in NodeFns, name \in RegNames : RegisterNode(fn, name)

RegSpec == Init /\ [][RegNext]_vars

\* ------------------------------------------------- asda_node wrapper, sinks
\* The trace_id of the run whose nodes are invoked, and the value uuid4 gives
\* the default_factory of BaseInputSchema.trace_id: an id no run holds.
RunTraceId == 1
uuid4 == MaxRuns + 1 + Len(called)

\* TraceEvent(**kw): pydantic validation of the keyword arguments. Unknown
\* keywords are ignored, a missing required field or a status outside
\* NodeStatus is a ValidationError (None here).
NodeStatus == {"success", "failure", "interrupted", "validation_error"}
TraceEventRequired ==
  {"trace_id", "span_id", "node_name", "version", "status", "runtime_ms"}
TraceEvent(kw) ==
  IF TraceEventRequired \subseteq DOMAIN kw /\ kw.status \in NodeStatus
    THEN Some(kw) ELSE None

\* the methods of class TraceLogger
TraceLoggerMethods == {"log_event", "shutdown"}

\* TraceLogger.log_event lines 214-215: the sinks are called in list order
\* and an exception of a sink leaves the loop. delivered = the sinks that
\* received the event, failed = a sink raised.
log_event(failing) ==
  LET first == IF failing = {} THEN Cardinality(Sinks) + 1
               ELSE CHOOSE k \in failing : \A j \in failing : k <= j
  IN [delivered |-> {k \in Sinks : k < first}, failed |-> failing # {}]

\* wrapper(*args): one invocation of a wrapped node.
\*   valid      the input passes input_schema_type(**input_data)
\*   given      the trace_id the input carries, if any
\*   raises     the node body raises
\*   capture_io the decorator's flag
WrapperCall(valid, given, raises, capture_io) ==
  LET input_schema ==
        IF valid
          THEN Some([trace_id |-> IF given = None THEN uuid4 ELSE given[1]])
          ELSE None
      output_schema == IF valid /\ ~raises THEN Some("output") ELSE None
      status == IF ~valid THEN "validation_error"
                ELSE IF raises THEN "execution_error" ELSE "success"
      inflight == IF ~valid THEN Some("ValidationError: input")
                  ELSE IF raises THEN Some(NodeRaised) ELSE None
      \* lines 135-145: no span_id is passed
      trace_event ==
        TraceEvent([trace_id |-> IF input_schema = None THEN uuid4
                                 ELSE input_schema[1].trace_id,
                    node_name |-> "my_test_node", version |-> "v1.1",
                    input_hash |-> IF input_schema = None THEN None
                                   ELSE Some("sha256(input)"),
                    output_hash |-> IF output_schema = None THEN None
                                    ELSE Some("sha256(output)"),
                    runtime_ms |-> 0, status |-> status,
                    error_msg |-> inflight, governance_tags |-> "test"])
      \* line 146: trace_logger.log(trace_event)
      logged == capture_io /\ trace_event # None
                  /\ "log" \in TraceLoggerMethods
      \* an exception raised in the finally block replaces the one in flight
      raised == IF ~capture_io THEN inflight
                ELSE IF trace_event = None
                  THEN Some("ValidationError: TraceEvent")
                ELSE IF "log" \notin TraceLoggerMethods
                  THEN Some("AttributeError: log")
                ELSE inflight
  IN
  /\ Len(called) < MaxCalls
  /\ called' = Append(called,
       [op |-> "wrapper", valid |-> valid, given |-> given,
        raises |-> raises, capture_io |-> capture_io, failing |-> {},
        body |-> valid,
        trace_id |-> IF input_schema = None THEN None
                     ELSE Some(input_schema[1].trace_id),
        events |-> IF logged THEN << trace_event[1] >> ELSE << >>,
        raised |-> raised,
        output |-> IF raised = None THEN output_schema ELSE None])
  /\ sunk' = IF logged
               THEN [k \in Sinks |-> Append(sunk[k], trace_event[1])]
               ELSE sunk
  /\ UNCHANGED << runVars, ret, registry, pending, disk, wpc >>

\* with log_node_execution(logger, node_name, version, trace_id_override):
\* the block runs, then the finally clause hands the event to log_event.
\*   raises   the block raises
\*   failing  the sinks whose write raises
LogNodeExecution(raises, failing) ==
  LET status == IF raises THEN "failure" ELSE "success"
      event ==
        TraceEvent([trace_id |-> RunTraceId, span_id |-> "span",
                    node_name |-> "llm_agent", version |-> "v1.0",
                    status |-> status, runtime_ms |-> 0,
                    input_hash |-> None, governance_tags |-> << >>])
      sent == log_event(failing)
  IN
  /\ Len(called) < MaxCalls
  /\ called' = Append(called,
       [op |-> "block", valid |-> TRUE, given |-> Some(RunTraceId),
        raises |-> raises, capture_io |-> TRUE, failing |-> failing,
        body |-> TRUE,
        trace_id |-> Some(RunTraceId),
        events |-> << event[1] >>,
        raised |-> IF sent.failed THEN Some("sink write failed")
                   ELSE IF raises THEN Some(NodeRaised) ELSE None,
        output |-> IF sent.failed \/ raises THEN None ELSE Some("output")])
  /\ sunk' = [k \in Sinks |->
               IF k \in sent.delivered THEN Append(sunk[k], event[1])
               ELSE sunk[k]]
  /\ UNCHANGED << runVars, ret, registry, pending, disk, wpc >>

NodeNext ==
  \/ \E valid \in BOOLEAN, given \in {None, Some(RunTraceId)},
        raises \in BOOLEAN, capture_io \in BOOLEAN :
        WrapperCall(valid, given, raises, capture_io)
  \/ \E raises \in BOOLEAN, failing \in SUBSET Sinks :
        LogNodeExecution(raises, failing)

NodeSpec == Init /\ [][NodeNext]_vars

\* ------------------------------------- JSONLSink.__call__, one thread per run
\* The sink holds one text file object opened in append mode. Each of the two
\* statements of __call__ is one call into the file object, which runs under
\* the interpreter lock; the sink itself takes no lock.
\* The line of the n-th event of writer w is << w, n >>.

\* line 95: self.file.write(event.model_dump_json() + "\n")
SinkWrite(w) ==
  /\ wpc[w].at = "idle"
  /\ wpc[w].n < MaxWrites
  /\ pending' = Append(pending, << w, wpc[w].n + 1 >>)
  /\ wpc' = [wpc EXCEPT ![w].at = "L96"]
  /\ UNCHANGED << runVars, ret, registry, called, sunk, disk >>

\* flush of a file that was opened with mode "w" by the flushing call
SinkFlush_Truncating(w) ==
  /\ wpc[w].at = "L96"
  /\ disk' = pending
  /\ pending' = << >>
  /\ wpc' = [wpc EXCEPT ![w] = [at |-> "idle", n |-> @.n + 1]]
  /\ UNCHANGED << runVars, ret, registry, called, sunk >>

\* line 96: self.file.flush(), then __call__ returns
SinkFlush(w) ==
  /\ wpc[w].at = "L96"
  /\ disk' = disk \o pending
  /\ pending' = << >>
  /\ wpc' = [wpc EXCEPT ![w] = [at |-> "idle", n |-> @.n + 1]]
  /\ UNCHANGED << runVars, ret, registry, called, sunk >>

SinkNext == \E w \in Writers : SinkWrite(w) \/ SinkFlush(w)

SinkSpec == Init /\ [][SinkNext]_vars

\* The thread pool runs every dispatched run to its end.
FairSpec == Spec /\ \A t \in Ids : WF_vars(_run_dag(t))

\* ------------------------------------------------------------- properties
Allocated == {alloc[i] : i \in 1..Len(alloc)}
Done(t) == pc[t] = "done"
Status(t) == tasks[t].status
NodeNames(rec) == [i \in 1..Len(rec.executed_nodes) |-> rec.executed_nodes[i].node_name]

\* A node of run t failed: its body was called and left no output.
FailedAt(t, i) ==
  /\ i \in 1..Len(invoked[t])
  /\ st[t] # None
  /\ invoked[t][i] \notin DOMAIN st[t][1].node_outputs
NodeFailed(t) == \E i \in 1..Len(invoked[t]) : FailedAt(t, i)

TypeOK ==
  /\ DOMAIN tasks \subseteq Allocated
  /\ \A t \in DOMAIN tasks : tasks[t].status \in {"running", "completed", "failed"}
  /\ current # None => current[1] \in DOMAIN recs

\* C1: POST /run answers 200 {trace_id, status running} with the entry already
\* in the task table and the run not yet started, and GET /status of an
\* allocated trace_id never answers 'unknown'.
C1_RunInsertsRunning ==
  /\ [](\A t \in Allocated : get_status(t).status # "unknown")
  /\ [][ (resp'.op = "run" /\ alloc' # alloc) =>
           LET new == resp'.trace_id IN
             /\ new = alloc'[Len(alloc')]
             /\ resp'.code = 200 /\ resp'.status = "running"
             /\ new \in DOMAIN tasks' /\ tasks'[new].status = "running"
             /\ pc'[new] = "queued" ]_vars

C1_Witness ==
  /\ resp.op = "run"
  /\ pc[resp.trace_id] = "queued"
  /\ get_status(resp.trace_id).status = "running"

\* C2: under fair scheduling every dispatched run ends, with status
\* 'completed' or 'failed', and a failed result has its error set.
C2_RunsTerminate ==
  \A t \in Ids :
    (pc[t] = "queued") ~>
      ( /\ Done(t)
        /\ Status(t) \in {"completed", "failed"}
        /\ Status(t) = "failed" => tasks[t].error # None )

C2_Witness ==
  \E t \in Ids, u \in Ids :
    /\ Done(t) /\ Status(t) = "failed"
    /\ tasks[t].error = Some(NotInitialised)
    /\ Done(u) /\ Status(u) = "failed"
    /\ tasks[u].error = Some(TaskNotFound("nope"))

\* C3: a completed replay run returns the dag_output of the completed run it
\* replays.
C3_ReplayFidelity ==
  \A t \in Allocated :
    ( /\ replayOf[t] # NoId
      /\ Done(t) /\ Status(t) = "completed"
      /\ Done(replayOf[t]) /\ Status(replayOf[t]) = "completed" )
    => get_status(t).dag_output = get_status(replayOf[t]).dag_output

\* C4: a replay calls the body of no node that is in the replay map and gives
\* node_outputs the stored output of each such node; the nodes of the graph
\* that are absent from the replay map are executed.
C4_ReplaySkipsStored ==
  (mgr # None /\ mgr[1].ok) =>
    /\ \A n \in DOMAIN mgr[1].replay_nodes \cap GraphNodes :
         /\ \A i \in 1..Len(mgr[1].invoked) : mgr[1].invoked[i] # n
         /\ n \in DOMAIN mgr[1].meta.node_outputs
         /\ Some(mgr[1].meta.node_outputs[n]) = mgr[1].replay_nodes[n]
    /\ \A n \in GraphNodes \ DOMAIN mgr[1].replay_nodes :
         \E i \in 1..Len(mgr[1].invoked) : mgr[1].invoked[i] = n

\* C5: the record persisted for T carries T's id and task name and only
\* entries recorded by T's run, and no step of a run changes or closes the
\* open record of another run.
HasOpenRecord(t) == pc[t] \in {"L76", "L83", "L88", "L89", "L90", "L97"}
C5_OwnRecordOnly ==
  /\ [](\A f \in DOMAIN files :
          /\ files[f].trace_id = f
          /\ files[f].task_name = sub[f].task_name
          /\ \A i \in 1..Len(files[f].executed_nodes) :
                LET e == files[f].executed_nodes[i] IN
                  e.output # None => e.output[1].trace_id = f)
  /\ [][ \A t \in Ids, u \in Ids :
           (t # u /\ pc'[t] # pc[t] /\ HasOpenRecord(u)) =>
             /\ recs'[u] = recs[u]
             /\ current = Some(u) => current' = Some(u) ]_vars

\* C6: a valid submission of the default flow, none of whose nodes raised,
\* ends 'completed' whatever the other runs do.
C6_AllComplete ==
  \A t \in Ids :
    (Done(t) /\ sub[t].task_name = DefaultTask /\ ~NodeFailed(t))
      => Status(t) = "completed"

\* C7: once a node of a run has failed, that node is the last one the run
\* calls, no node is called twice, and the run ends 'failed'.
C7_FailureAborts ==
  \A t \in Ids :
    NodeFailed(t) =>
      /\ FailedAt(t, Len(invoked[t]))
      /\ \A i \in 1..Len(invoked[t]) : FailedAt(t, i) => i = Len(invoked[t])
      /\ \A i, j \in 1..Len(invoked[t]) : invoked[t][i] = invoked[t][j] => i = j
      /\ pc[t] \notin {"L83", "L88", "L89", "L90"}
      /\ Done(t) => Status(t) = "failed"

C7_Witness ==
  \E t \in Ids :
    /\ Done(t) /\ NodeFailed(t) /\ Status(t) = "failed"
    /\ invoked[t] = << "retriever_node", "llm_inference_node" >>

\* C8: a run that failed at a node has a persisted record with end_time set
\* whose last entry is the failing node, not 'success', with an error message.
C8_FailureRecorded ==
  \A t \in Ids :
    (Done(t) /\ NodeFailed(t)) =>
      /\ t \in DOMAIN files
      /\ files[t].ended
      /\ Len(files[t].executed_nodes) > 0
      /\ LET e == files[t].executed_nodes[Len(files[t].executed_nodes)] IN
           /\ e.node_name = invoked[t][Len(invoked[t])]
           /\ e.status # "success"
           /\ e.error_msg # None

\* C9: the record of a completed run lists the nodes that ran, in execution
\* order, each consecutive pair joined by an edge: retriever, llm, executor.
C9_RecordListsNodes ==
  \A t \in Ids :
    (Done(t) /\ Status(t) = "completed" /\ t \in DOMAIN files) =>
      /\ NodeNames(files[t]) = invoked[t]
      /\ NodeNames(files[t]) =
           << "retriever_node", "llm_inference_node", "executor_node" >>
      /\ \A i \in 1..(Len(files[t].executed_nodes) - 1) :
           << NodeNames(files[t])[i], NodeNames(files[t])[i + 1] >> \in Edges

\* C10: every allocated trace_id is new: no id is allocated twice, /replay
\* answers with an id other than the one it was given, and a submission
\* leaves the existing task-table entries as they are.
C10_FreshIds ==
  /\ [](\A i, j \in 1..Len(alloc) : alloc[i] = alloc[j] => i = j)
  /\ []((resp.op = "replay" /\ resp.code = 200) =>
          resp.trace_id # replayOf[resp.trace_id])
  /\ [][ alloc' # alloc =>
           /\ alloc'[Len(alloc')] \notin DOMAIN tasks
           /\ \A t \in DOMAIN tasks : tasks'[t] = tasks[t] ]_vars

C10_Witness ==
  /\ resp.op = "replay" /\ resp.code = 200
  /\ Len(alloc) = 2
  /\ resp.trace_id \in DOMAIN tasks /\ replayOf[resp.trace_id] \in DOMAIN tasks

\* C11: GET /status/{id} and GET /result/{id} for an id that /run and /replay
\* never returned answer 200 with status 'unknown' for that id, and no such
\* request changes the task table or allocates an id.
C11_UnknownIdNoEntry ==
  [][ (resp'.op \in {"status", "result"} /\ resp' # resp) =>
        /\ tasks' = tasks
        /\ alloc' = alloc
        /\ resp'.arg \notin Allocated =>
              /\ resp'.code = 200
              /\ resp'.status = "unknown"
              /\ resp'.trace_id = resp'.arg ]_vars

\* A never-returned id was polled while the table held a run, and the table
\* still holds just the allocated ids.
C11_Witness ==
  /\ resp.op \in {"status", "result"}
  /\ resp.arg \notin Allocated
  /\ resp.status = "unknown"
  /\ tasks # EmptyMap
  /\ DOMAIN tasks = Allocated

\* C12: a submission whose task_name names no known graph is accepted by /run
\* with status 'running' (C1), calls no node, and once its run has ended its
\* TaskResult is 'failed' with the error "Task '<name>' not found".
C12_UnknownTaskNotFound ==
  \A t \in Allocated :
    sub[t].task_name # DefaultTask =>
      /\ invoked[t] = << >>
      /\ Done(t) =>
            /\ Status(t) = "failed"
            /\ tasks[t].error = Some(TaskNotFound(sub[t].task_name))

\* C13: GET /replay/{id} for an id with no stored TraceRecord is answered with
\* 404, allocates no trace_id, adds no entry to the task table and dispatches
\* no run.
C13_ReplayMissingIs404 ==
  [][ (resp'.op = "replay" /\ resp' # resp /\ ~LoadOk(resp'.arg)) =>
        /\ resp'.code = 404
        /\ alloc' = alloc
        /\ tasks' = tasks
        /\ pc' = pc ]_vars

\* C14: ReplayReader.load(trace_id) returns the stored TraceRecord when a trace
\* was finalized under that id; for every other id it raises
\* FileNotFoundError and nothing else; in both cases the store is unchanged.
C14_LoadOrNotFound ==
  [][ (ret'.op = "load" /\ ret' # ret) =>
        /\ files' = files
        /\ IF ret'.trace_id \in DOMAIN files
             THEN ret'.ok /\ ret'.value = Some(files[ret'.trace_id])
             ELSE ~ret'.ok /\ ret'.error = "FileNotFoundError" ]_vars

BeforeFinalize(t) == pc[t] \in {"queued", "L74", "L76", "L83", "L88", "L89", "L90"}
C16_FileCompleteOrAbsent ==
  /\ \A f \in DOMAIN files : files[f].ended
  /\ \A t \in Allocated :
        /\ BeforeFinalize(t) => t \notin DOMAIN files
        /\ (Done(t) /\ Status(t) = "completed" /\ t \in DOMAIN files) =>
             \E i \in 1..Len(files[t].executed_nodes) :
               /\ files[t].executed_nodes[i].node_name = "__result__"
               /\ files[t].executed_nodes[i].output = tasks[t].dag_output

\* C17: finalize_trace called again on the same handle, with no call in
\* between, does not fail, returns the same TraceRecord as the first call and
\* leaves the stored record, end_time included, as it was.
C17_FinalizeIdempotent ==
  [][ (ret.op = "finalize" /\ ret.ok /\ ret'.op = "finalize") =>
        /\ ret'.ok
        /\ ret'.value = ret.value
        /\ files' = files ]_vars

\* C18: init_trace on a handle that has an open trace fails with
\* AlreadyActive and leaves the handle and the open TraceRecord, with the
\* nodes already recorded in it, unchanged.
C18_InitRefusedWhenOpen ==
  [][ (ret'.op = "init" /\ ret' # ret /\ current # None) =>
        /\ ~ret'.ok
        /\ ret'.error = "AlreadyActive"
        /\ current' = current
        /\ recs' = recs ]_vars

\* C19: in every state handed to the graph, is_replay implies a non-empty
\* replay map and not is_replay implies an empty one, and the state of a run
\* created by /replay has is_replay set.
C19_ReplayFlagMatchesMap ==
  \A t \in Allocated :
    st[t] # None =>
      /\ st[t][1].is_replay => st[t][1].replay_data # EmptyMap
      /\ ~st[t][1].is_replay => st[t][1].replay_data = EmptyMap
      /\ replayOf[t] # NoId => st[t][1].is_replay

\* C20: in every finalized TraceRecord replay_info.source_trace_id is set, to
\* the id of the original trace, exactly when the run was created by a replay.
C20_SourceIffReplay ==
  \A f \in DOMAIN files :
    IF replayOf[f] # NoId
      THEN files[f].replay_info.source_trace_id = Some(replayOf[f])
      ELSE files[f].replay_info.source_trace_id = None

\* C21: registering a node under a name already in the registry fails and
\* leaves the registry unchanged, and registering under a new name adds it at
\* the end; so every name stays bound to the function first registered under
\* it, and list_registered_nodes returns each registered name exactly once, in
\* registration order.
C21_DuplicateRegistrationFails ==
  /\ [](\A i, j \in 1..Len(list_registered_nodes) :
          list_registered_nodes[i] = list_registered_nodes[j] => i = j)
  /\ [][ /\ Len(registry) <= Len(registry')
         /\ \A i \in 1..Len(registry) : registry'[i] = registry[i] ]_vars
  /\ [][ (ret'.op = "register" /\ ret' # ret) =>
           LET node_name == ret'.value[1] IN
             IF node_name \in RegisteredNames
               THEN ~ret'.ok /\ registry' = registry
               ELSE /\ ret'.ok
                    /\ Len(registry') = Len(registry) + 1
                    /\ registry'[Len(registry')].name = node_name ]_vars

\* A second registration under a taken name was refused while the name is
\* bound to the other function.
C21_Witness ==
  /\ ret.op = "register"
  /\ ~ret.ok
  /\ Len(registry) >= 2
  /\ \E i \in 1..Len(registry) :
        /\ registry[i].name = ret.value[1]
        /\ registry[i].name = "my_test_node_v1.1"
        /\ registry[i].fn = "my_test_node_v1_2"

\* the invocations of the wrapper and of the logged block, by position
WrapperCalls == {i \in 1..Len(called) : called[i].op = "wrapper"}
BlockCalls == {i \in 1..Len(called) : called[i].op = "block"}
\* what the node body alone gives: its output, or the error it ends with
BodyOutput(c) == IF c.valid /\ ~c.raises THEN Some("output") ELSE None
BodyFails(c) == ~c.valid \/ c.raises

\* C22: when the input of a wrapped node (capture_io on) fails validation,
\* the body is not invoked, exactly one event is emitted for the invocation,
\* with status 'validation_error' and an error message, there is no output
\* and the caller gets the failure.
C22_ValidationErrorEvent ==
  \A i \in WrapperCalls :
    (~called[i].valid /\ called[i].capture_io) =>
      /\ ~called[i].body
      /\ Len(called[i].events) = 1
      /\ called[i].events[1].status = "validation_error"
      /\ called[i].events[1].error_msg # None
      /\ called[i].output = None
      /\ called[i].raised # None

\* C23: with capture_io on, every invocation of a wrapped node emits exactly
\* one TraceEvent, with input_hash and output_hash set when it succeeds; with
\* capture_io off it emits none; either way the caller gets what the body
\* gives.
C23_OneEventPerInvocation ==
  \A i \in WrapperCalls :
    /\ called[i].capture_io =>
          /\ Len(called[i].events) = 1
          /\ ~BodyFails(called[i]) =>
                /\ called[i].events[1].input_hash # None
                /\ called[i].events[1].output_hash # None
    /\ ~called[i].capture_io => called[i].events = << >>
    /\ called[i].output = BodyOutput(called[i])
    /\ (called[i].raised # None) = BodyFails(called[i])

\* C24: every event emitted by the nodes of the run carries the run's
\* trace_id, and the input of every node, also one that arrived without a
\* trace_id, has the run's trace_id and not a generated one.
C24_RunTraceIdEverywhere ==
  /\ \A k \in Sinks : \A j \in 1..Len(sunk[k]) :
        sunk[k][j].trace_id = RunTraceId
  /\ \A i \in 1..Len(called) :
        called[i].trace_id # None => called[i].trace_id = Some(RunTraceId)

\* C25: when a sink's write raises while an event is emitted, the caller gets
\* the block's own outcome, and every sink that did not fail has received
\* the event.
C25_SinkFailureIgnored ==
  /\ \A i \in BlockCalls :
        /\ called[i].output = BodyOutput(called[i])
        /\ (called[i].raised # None) = BodyFails(called[i])
  /\ \A k \in Sinks :
        Len(sunk[k]) >= Cardinality({i \in BlockCalls : k \notin called[i].failing})

\* C26: under concurrent writes to one JSONL sink the file holds whole lines
\* only, one per write call: every line a call has written is in the file or
\* in the file object's buffer exactly once, nothing else is, and the line of
\* every call that has returned is in the file.
Occurrences(seq, x) == Cardinality({j \in 1..Len(seq) : seq[j] = x})
WrittenLines ==
  {l \in Writers \X (1..MaxWrites) :
     l[2] <= wpc[l[1]].n + (IF wpc[l[1]].at = "L96" THEN 1 ELSE 0)}
C27_CompletedAfterFinalize ==
  \A t \in DOMAIN tasks : Status(t) = "completed" => LoadOk(t)

\* C28: once the TaskResult of a trace_id shows 'completed' or 'failed', no
\* step of any run changes its status.
C28_TerminalStatusStable ==
  [][ \A t \in DOMAIN tasks :
        Status(t) \in {"completed", "failed"} =>
          tasks'[t].status = tasks[t].status ]_vars

\* C29: in every state of the task table, for every trace_id a reader may ask
\* for, the result carries a dag_output exactly when its status is
\* 'completed'.
C29_OutputIffCompleted ==
  \A t \in Ids \cup {NoId} :
    (get_result(t).dag_output # None) = (get_result(t).status = "completed")

\* C30: GET /replay/{T} for a finalized trace T, also one with no recorded
\* node, answers 200 with a new trace_id and status 'running' and dispatches
\* the run.
C30_ReplayOfAnyFinalized ==
  [][ (resp'.op = "replay" /\ resp' # resp /\ LoadOk(resp'.arg)) =>
        /\ resp'.code = 200
        /\ resp'.status = "running"
        /\ resp'.trace_id \notin Allocated
        /\ resp'.trace_id \in DOMAIN tasks'
        /\ pc'[resp'.trace_id] = "queued" ]_vars

====
